---------------------------- MODULE Spec2Model ----------------------------
(***************************************************************************)
(* A model of the distributed EMC iteration of CuPADMAN                    *)
(* (src/cupadman/emc.py, with src/emc.py and src/kernels.py).              *)
(*                                                                         *)
(* Spec      : run_iteration on every rank of two launches of the program  *)
(*             on the same input, one with 1 process and one with 2        *)
(*             processes.  Arrays carry the provenance of their            *)
(*             contents (which orientation, which frames, which model)     *)
(*             instead of floating-point numbers.                          *)
(* SpecNorm  : the arithmetic of _normalize_prob on one block, on exact    *)
(*             rationals, for both reconstructors.                         *)
(* SpecSched : the block schedule of run_iteration as a function of its    *)
(*             inputs.                                                     *)
(* SpecStreams : the kernels of one rank on its CUDA streams in one block. *)
(***************************************************************************)
EXTENDS Integers, Sequences, FiniteSets, TLC

(***************************************************************************)
(* Bounds of the model                                                     *)
(***************************************************************************)
\* number of frames of the dataset (dset.num_data)
NumData == 3
\* number of cells of the model array (size**3 in the source)
Size == 3
\* number of calls of run_iteration made by main()
MaxIter == 1

\* launches of the program that are compared: communicator sizes (num_proc)
Comms == {1, 2}
\* a process is <<communicator size, rank>>
Procs == {<<1, 0>>, <<2, 0>>, <<2, 1>>}
\* orientation counts (num_rot) of the runs
RotChoices == {2, 3}
\* device memory sizes (mem_size) and the dataset's memory (dset.mem), bytes
MemSizes == {30, 70}
DatasetMems == {10}

Cells == 0..(Size - 1)
Frames == 0..(NumData - 1)

Size_of(p) == p[1]
Rank_of(p) == p[2]
RanksOf(n) == {p \in Procs : Size_of(p) = n}

(***************************************************************************)
(* Program constants                                                       *)
(***************************************************************************)
\* MEM_THRESH = 0.8 as the fraction MemThreshNum / MemThreshDen
MemThreshNum == 4
MemThreshDen == 5
\* bytes of one 'f8' probability entry
BytesPerEntry == 8

(***************************************************************************)
(* Small helpers                                                           *)
(***************************************************************************)
CeilDiv(a, b) == (a + b - 1) \div b

Max2(a, b) == IF a >= b THEN a ELSE b

RECURSIVE SeqMax(_)
SeqMax(s) == IF Len(s) = 1 THEN s[1] ELSE Max2(s[1], SeqMax(Tail(s)))

(***************************************************************************)
(* The block schedule, run_iteration lines 98-104                          *)
(***************************************************************************)
\* a row count without the share of the remainder
NumRotPFloor(nrot, nproc, rank) == nrot \div nproc

\* num_rot_p: the number of orientations a rank owns
NumRotP(nrot, nproc, rank) ==
    (nrot \div nproc) + (IF rank < nrot % nproc THEN 1 ELSE 0)

\* num_blocks = ceil(mem_frac / MEM_THRESH) with
\* mem_frac = num_rot_p * num_data * 8 / (mem_size - dset.mem), exactly
NumBlocks(nrotp, ndata, avail) ==
    CeilDiv(nrotp * ndata * BytesPerEntry * MemThreshDen, avail * MemThreshNum)

\* blocks of num_data // num_blocks frames, the remainder left out
BlockSizesNoRemainder(ndata, nblocks) ==
    [b \in 1..nblocks |-> ndata \div nblocks]

\* block_sizes: num_data // num_blocks each, the first num_data % num_blocks
\* one larger
BlockSizes(ndata, nblocks) ==
    [b \in 1..nblocks |->
        (ndata \div nblocks) + (IF b - 1 < ndata % nblocks THEN 1 ELSE 0)]

\* the probability row of one frame fits the budget:
\* num_rot_p * 8 <= MEM_THRESH * (mem_size - dset.mem)
RowFits(nrotp, avail) ==
    nrotp * BytesPerEntry * MemThreshDen <= MemThreshNum * avail

\* the frame ranges of 'for b in block_sizes', lines 114-120:
\* drange = (b_start, b_start + b), b_start += b
RECURSIVE StartOf(_, _)
StartOf(sizes, b) == IF b = 1 THEN 0 ELSE StartOf(sizes, b - 1) + sizes[b - 1]

Dranges(sizes) ==
    [b \in DOMAIN sizes |->
        [s |-> StartOf(sizes, b), e |-> StartOf(sizes, b) + sizes[b]]]

(***************************************************************************)
(* State of the launches                                                   *)
(***************************************************************************)
VARIABLES
    num_rot,      \* number of orientations (same input for both launches)
    dset_mem,     \* dset.mem
    mem_size,     \* mem_size of every process
    photons,      \* "some": frames hold photons; "none": every frame is empty
    tagged,       \* whether run_iteration is called with an iternum
    pc,           \* where every process is
    iter,         \* iterations started by every process
    model,        \* self.model (host)
    mweights,     \* self.mweights (host)
    dmodel,       \* the device array dmodel of run_iteration
    dmweights,    \* the device array dmweights of run_iteration
    block_sizes,  \* block_sizes of run_iteration
    blk,          \* position in 'for b in block_sizes' (1-based)
    b_start,      \* b_start of run_iteration
    prob,         \* self.prob: [rows, cols], cols the content of each column
    rmax,         \* self.rmax
    call,         \* the collective call a process is blocked in
    reduce_q,     \* Reduce buffers a rank has sent that the root has not
                  \* received yet
    bcast_q,      \* Bcast buffers of the root a rank has not received yet
    saved,        \* the files every process has written with np.save
    issued,       \* history: the collective calls every process has made
    start_model,  \* history: self.model when run_iteration was entered
    rendered      \* history: the array slice_gen was last given

mainvars == <<num_rot, dset_mem, mem_size, photons, tagged, pc, iter, model,
              mweights, dmodel, dmweights, block_sizes, blk, b_start, prob,
              rmax, call, reduce_q, bcast_q, saved, issued, start_model,
              rendered>>

VARIABLES
    n_impl,       \* "cupadman" (src/cupadman/emc.py) or "plain" (src/emc.py)
    n_np,         \* num_proc
    n_nrot,       \* num_rot
    n_pc,         \* where every rank is in _normalize_prob / _update_model
    n_log,        \* history: the log-likelihoods the block started with
    n_prob,       \* self.prob of every rank: rows of columns
    n_max_exp_p,  \* max_exp_p
    n_rmax_p,     \* rmax_p
    n_max_exp,    \* max_exp
    n_rmax,       \* self.rmax
    n_psum_p,     \* psum_p
    n_psum,       \* psum
    n_merged      \* rows of every rank that _update_model merged and
                  \* back-projected

normvars == <<n_impl, n_np, n_nrot, n_pc, n_log, n_prob, n_max_exp_p,
              n_rmax_p, n_max_exp, n_rmax, n_psum_p, n_psum, n_merged>>

VARIABLES
    s_in,         \* the inputs of the schedule: num_rot, num_proc, rank,
                  \* num_data, avail = mem_size - dset.mem
    s_out         \* what lines 98-108 of run_iteration made of them

schedvars == <<s_in, s_out>>

VARIABLES
    k_ns,         \* num_streams
    k_nrot,       \* number of orientations the rank owns
    k_phase,      \* "estep", "norm", "mstep", "done"
    k_i,          \* the host's position in 'for i, r in enumerate(...)'
    k_queue,      \* the kernels queued on every stream, oldest first
    k_views,      \* views[snum]: what every scratch view holds
    k_prob,       \* what every row of self.prob holds
    k_acc,        \* what slice_merge has added to dmodel / dmweights
    k_bad,        \* history: a kernel read a view another orientation wrote
    k_s           \* the host's position in '[s.synchronize() for s in ...]'

streamvars == <<k_ns, k_nrot, k_phase, k_i, k_queue, k_views, k_prob, k_acc,
               k_bad, k_s>>

VARIABLES
    d_file,       \* the photons file: len(place_ones[i]), len(place_multi[i])
    d_nblocks,    \* the number of blocks of the schedule
    d_pc,         \* "init", "estep", "mstep", "done"
    d_ones,       \* dset.ones, dset.multi: photons per frame
    d_multi,
    d_ones_accum, \* dset.ones_accum, dset.multi_accum: the offsets
    d_multi_accum,
    d_place_ones, \* the pooled arrays; an element is tagged with the frame
    d_place_multi,\* it came from
    d_sizes,      \* block_sizes
    d_blk,        \* the block the loop is in, 1-based
    d_read        \* what the last kernel read: for every frame d of the
                  \* block, the indices t of the pooled arrays

datavars == <<d_file, d_nblocks, d_pc, d_ones, d_multi, d_ones_accum,
             d_multi_accum, d_place_ones, d_place_multi, d_sizes, d_blk,
             d_read>>

vars == <<mainvars, normvars, schedvars, streamvars, datavars>>

(***************************************************************************)
(* Array contents.  A cell holds the random initial intensity ("rand"),    *)
(* uninitialised memory ("junk"), 0.0 ("zero"), a sum of back-projected    *)
(* views ("sum") or such a sum divided by its weight ("avg").  A term of a *)
(* sum names the view: orientation r merged over frames [s, e) in          *)
(* iteration it, with responsibilities that came from a view rendered from *)
(* the array src.                                                          *)
(***************************************************************************)
Rand == [k |-> "rand", terms |-> {}]
Junk == [k |-> "junk", terms |-> {}]
Zero == [k |-> "zero", terms |-> {}]

AddVal(a, b) ==
    IF a.k = "zero" THEN b
    ELSE IF b.k = "zero" THEN a
    ELSE [k |-> "sum", terms |-> a.terms \cup b.terms]

DivVal(a) == [k |-> "avg", terms |-> a.terms]

\* a probability column nothing was written to (cp.empty)
\* st: "empty" (never written), "log" (a log-likelihood written by
\* calc_prob_all), "prob" (divided by the global sum and clipped to P_MIN)
EmptyCol == [it |-> 0, blk |-> 0, frame |-> -1,
             src |-> [c \in Cells |-> Junk], st |-> "empty"]

NoCall == [op |-> "none", len |-> 0]

\* orientations owned by a rank: range(rank, num_rot, num_proc), as the
\* sequence enumerate() walks through
OwnedRots(nrot, nproc, rank) ==
    [i \in 1..Cardinality({r \in 0..(nrot - 1) : r % nproc = rank}) |->
        rank + (i - 1) * nproc]

(***************************************************************************)
(* slice_merge (src/kernels.py): pixel t of the view of orientation r is   *)
(* added to the model cell the orientation maps it to, and the weight of   *)
(* that cell is raised, unless the cell index is beyond size - 2.  The     *)
(* rotation is a cyclic shift here and the interpolation nearest-cell.     *)
(***************************************************************************)
Target(r, t) == (t + r) % Size

Touches(r, c) == c <= Size - 2 /\ \E t \in Cells : Target(r, t) = c

Root(n) == <<n, 0>>

\* line 75: random numbers times dset.mean_count / dset.num_pix; the mean
\* count of a dataset without photons is 0
InitialModel == IF photons = "none" THEN Zero ELSE Rand

(***************************************************************************)
(* Init: inside EMC.__init__, line 76: rank 0 has drawn the random model,  *)
(* the others hold np.empty, and everyone is about to call Bcast.          *)
(***************************************************************************)
Init ==
    /\ num_rot \in RotChoices
    /\ dset_mem \in DatasetMems
    /\ mem_size \in [Procs -> MemSizes]
    /\ \A p \in Procs :
          RowFits(NumRotP(num_rot, Size_of(p), Rank_of(p)),
                  mem_size[p] - dset_mem)
    /\ photons \in {"some", "none"}
    /\ tagged \in BOOLEAN
    /\ pc = [p \in Procs |-> "w_bcast_init"]
    /\ iter = [p \in Procs |-> 0]
    /\ model = [p \in Procs |->
                  [c \in Cells |-> IF Rank_of(p) = 0 THEN InitialModel ELSE Junk]]
    /\ mweights = [p \in Procs |-> [c \in Cells |-> 0]]
    /\ dmodel = [p \in Procs |-> [c \in Cells |-> Junk]]
    /\ dmweights = [p \in Procs |-> [c \in Cells |-> 0]]
    /\ block_sizes = [p \in Procs |-> <<>>]
    /\ blk = [p \in Procs |-> 0]
    /\ b_start = [p \in Procs |-> 0]
    /\ prob = [p \in Procs |-> [rows |-> 0, cols |-> <<>>]]
    /\ rmax = [p \in Procs |-> <<>>]
    /\ call = [p \in Procs |-> [op |-> "Bcast", len |-> Size]]
    /\ reduce_q = [p \in Procs |-> <<>>]
    /\ bcast_q = [p \in Procs |-> <<>>]
    /\ saved = [p \in Procs |-> <<>>]
    /\ issued = [p \in Procs |-> <<[op |-> "Bcast", len |-> Size]>>]
    /\ start_model = [p \in Procs |-> [c \in Cells |-> Junk]]
    /\ rendered = [p \in Procs |-> [c \in Cells |-> Junk]]

\* a collective that does not wait for the other ranks
SomeAt(n, where) == \E p \in RanksOf(n) : pc[p] = where

\* every rank of communicator n is blocked at the same call site in calls
\* that match (same operation, same buffer length)
AllAt(n, where) ==
    /\ \A p \in RanksOf(n) : pc[p] = where
    /\ \A p, q \in RanksOf(n) : call[p] = call[q]

\* a process enters a collective call
Enter(p, where, op, len) ==
    /\ pc' = [pc EXCEPT ![p] = where]
    /\ call' = [call EXCEPT ![p] = [op |-> op, len |-> len]]
    /\ issued' = [issued EXCEPT ![p] = Append(@, [op |-> op, len |-> len])]

\* an Allreduce returns on the ranks that are inside it
Leave(n, from, where) ==
    /\ pc' = [p \in Procs |->
                IF Size_of(p) = n /\ pc[p] = from THEN where ELSE pc[p]]
    /\ call' = [p \in Procs |->
                  IF Size_of(p) = n /\ pc[p] = from THEN NoCall ELSE call[p]]

(***************************************************************************)
(* Bcast([self.model, MPI.DOUBLE], root=0), lines 76 and 210.  The root    *)
(* returns once its buffer is on the way; another rank returns once it has *)
(* received the buffer that matches its call.                              *)
(***************************************************************************)
BcastSent(n) ==
    [p \in Procs |->
        IF Size_of(p) = n /\ Rank_of(p) # 0
        THEN Append(bcast_q[p], [len |-> call[Root(n)].len,
                                 data |-> model[Root(n)]])
        ELSE bcast_q[p]]

\* the root's side
BcastRoot(n, where) ==
    /\ pc[Root(n)] = where
    /\ bcast_q' = BcastSent(n)
    /\ pc' = [pc EXCEPT ![Root(n)] = "idle"]
    /\ call' = [call EXCEPT ![Root(n)] = NoCall]
    /\ UNCHANGED <<datavars, normvars, schedvars, streamvars, num_rot, dset_mem,
                   mem_size, photons, tagged, iter, model, mweights, dmodel,
                   dmweights, block_sizes, blk, b_start, prob, rmax,
                   reduce_q, saved, issued, start_model, rendered>>

\* EMC.__init__, line 76: the broadcast of the initial model
BcastInit(n) == BcastRoot(n, "w_bcast_init")

\* _normalize_model, line 210: the broadcast of the iteration's model
BcastModel(n) == BcastRoot(n, "w_bcast")

\* a Bcast that leaves the receive buffer alone
BcastRootOnly(p) == model

\* the receive buffer self.model is overwritten with the root's
BcastResult(p) == [model EXCEPT ![p] = Head(bcast_q[p]).data]

\* the side of the other ranks
BcastRecv(p) ==
    /\ Rank_of(p) # 0
    /\ pc[p] \in {"w_bcast_init", "w_bcast"}
    /\ bcast_q[p] # <<>>
    /\ Head(bcast_q[p]).len = call[p].len
    /\ model' = BcastResult(p)
    /\ bcast_q' = [bcast_q EXCEPT ![p] = Tail(@)]
    /\ pc' = [pc EXCEPT ![p] = "idle"]
    /\ call' = [call EXCEPT ![p] = NoCall]
    /\ UNCHANGED <<datavars, normvars, schedvars, streamvars, num_rot, dset_mem,
                   mem_size, photons, tagged, iter, mweights, dmodel,
                   dmweights, block_sizes, blk, b_start, prob, rmax,
                   reduce_q, saved, issued, start_model, rendered>>

(***************************************************************************)
(* run_iteration, lines 98-115: the schedule, the buffers, the copies      *)
(***************************************************************************)
Schedule(p) ==
    LET nrp == NumRotP(num_rot, Size_of(p), Rank_of(p))
        nb == NumBlocks(nrp, NumData, mem_size[p] - dset_mem)
    IN  [num_rot_p |-> nrp, num_blocks |-> nb,
         sizes |-> BlockSizes(NumData, nb)]

StartIteration(p) ==
    /\ pc[p] = "idle"
    /\ iter[p] < MaxIter
    /\ LET sch == Schedule(p)
           maxb == SeqMax(sch.sizes)
       IN  /\ block_sizes' = [block_sizes EXCEPT ![p] = sch.sizes]
           /\ prob' = [prob EXCEPT ![p] =
                 IF prob[p].rows = sch.num_rot_p /\ Len(prob[p].cols) = maxb
                 THEN prob[p]
                 ELSE [rows |-> sch.num_rot_p,
                       cols |-> [j \in 1..maxb |-> EmptyCol]]]
    /\ dmodel' = [dmodel EXCEPT ![p] = model[p]]
    /\ dmweights' = [dmweights EXCEPT ![p] = mweights[p]]
    /\ b_start' = [b_start EXCEPT ![p] = 0]
    /\ blk' = [blk EXCEPT ![p] = 1]
    /\ iter' = [iter EXCEPT ![p] = iter[p] + 1]
    /\ start_model' = [start_model EXCEPT ![p] = model[p]]
    /\ pc' = [pc EXCEPT ![p] = "estep"]
    /\ UNCHANGED <<datavars, normvars, schedvars, streamvars, photons, tagged, reduce_q, bcast_q, saved, issued, num_rot, dset_mem, mem_size, model, mweights, rmax, call,
                   rendered>>

(***************************************************************************)
(* _calculate_prob: slice_gen renders every owned orientation from dmodel, *)
(* calc_prob_all fills the first num_data_b columns of its row             *)
(***************************************************************************)
CalculateProb(p) ==
    /\ pc[p] = "estep"
    /\ LET b == block_sizes[p][blk[p]]
           from == dmodel[p]
       IN  prob' = [prob EXCEPT ![p].cols =
                 [j \in 1..Len(prob[p].cols) |->
                    IF j <= b
                    THEN [it |-> iter[p], blk |-> blk[p],
                          frame |-> b_start[p] + j - 1, src |-> from,
                          st |-> "log"]
                    ELSE prob[p].cols[j]]]
    /\ rendered' = [rendered EXCEPT ![p] = dmodel[p]]
    /\ pc' = [pc EXCEPT ![p] = "norm"]
    /\ UNCHANGED <<datavars, normvars, schedvars, streamvars, photons, tagged, reduce_q, bcast_q, saved, issued, num_rot, dset_mem, mem_size, iter, model, mweights, dmodel,
                   dmweights, block_sizes, blk, b_start, rmax, call,
                   start_model>>

(***************************************************************************)
(* _normalize_prob: three local parts, each ending in a collective         *)
(***************************************************************************)
\* lines 148-153: local maxima and arg-max, Allreduce(MAX) of max_exp_p
NormLocalMax(p) ==
    /\ pc[p] = "norm"
    /\ Enter(p, "w_max", "Allreduce_MAX_DOUBLE", Len(prob[p].cols))
    /\ UNCHANGED <<datavars, normvars, schedvars, streamvars, photons, tagged, reduce_q, bcast_q, saved, num_rot, dset_mem, mem_size, iter, model, mweights, dmodel,
                   dmweights, block_sizes, blk, b_start, prob, rmax,
                   start_model, rendered>>

AllreduceMax(n) ==
    /\ AllAt(n, "w_max")
    /\ Leave(n, "w_max", "got_max")
    /\ UNCHANGED <<datavars, normvars, schedvars, streamvars, photons, tagged, reduce_q, bcast_q, saved, issued, num_rot, dset_mem, mem_size, iter, model, mweights, dmodel,
                   dmweights, block_sizes, blk, b_start, prob, rmax,
                   start_model, rendered>>

\* lines 154-155: invalidate the losers, Allreduce(MAX) of rmax_p
Invalidate(p) ==
    /\ pc[p] = "got_max"
    /\ Enter(p, "w_rmax", "Allreduce_MAX_INT", Len(prob[p].cols))
    /\ UNCHANGED <<datavars, normvars, schedvars, streamvars, photons, tagged, reduce_q, bcast_q, saved, num_rot, dset_mem, mem_size, iter, model, mweights, dmodel,
                   dmweights, block_sizes, blk, b_start, prob, rmax,
                   start_model, rendered>>

\* self.rmax receives one entry per column of the probability buffer
AllreduceRmax(n) ==
    /\ AllAt(n, "w_rmax")
    /\ Leave(n, "w_rmax", "got_rmax")
    /\ rmax' = [p \in Procs |->
                  IF Size_of(p) = n THEN prob[p].cols ELSE rmax[p]]
    /\ UNCHANGED <<datavars, normvars, schedvars, streamvars, photons, tagged, reduce_q, bcast_q, saved, issued, num_rot, dset_mem, mem_size, iter, model, mweights, dmodel,
                   dmweights, block_sizes, blk, b_start, prob, start_model,
                   rendered>>

\* lines 156-161: subtract, exponentiate, local sums, Allreduce(SUM)
ExpSum(p) ==
    /\ pc[p] = "got_rmax"
    /\ Enter(p, "w_sum", "Allreduce_SUM_DOUBLE", Len(prob[p].cols))
    /\ UNCHANGED <<datavars, normvars, schedvars, streamvars, photons, tagged, reduce_q, bcast_q, saved, num_rot, dset_mem, mem_size, iter, model, mweights, dmodel,
                   dmweights, block_sizes, blk, b_start, prob, rmax,
                   start_model, rendered>>

AllreduceSum(n) ==
    /\ AllAt(n, "w_sum")
    /\ Leave(n, "w_sum", "got_sum")
    /\ UNCHANGED <<datavars, normvars, schedvars, streamvars, photons, tagged, reduce_q, bcast_q, saved, issued, num_rot, dset_mem, mem_size, iter, model, mweights, dmodel,
                   dmweights, block_sizes, blk, b_start, prob, rmax,
                   start_model, rendered>>

\* lines 162-163: divide by the global sum, clip to P_MIN; every column of
\* the buffer is processed, whatever the size of the current block
DivideClip(p) ==
    /\ pc[p] = "got_sum"
    /\ prob' = [prob EXCEPT ![p].cols =
                 [j \in 1..Len(prob[p].cols) |->
                    [prob[p].cols[j] EXCEPT !.st = "prob"]]]
    /\ pc' = [pc EXCEPT ![p] = "mstep"]
    /\ UNCHANGED <<datavars, normvars, schedvars, streamvars, photons, tagged, reduce_q, bcast_q, saved, issued, num_rot, dset_mem, mem_size, iter, model, mweights, dmodel,
                   dmweights, block_sizes, blk, b_start, rmax, call,
                   start_model, rendered>>

(***************************************************************************)
(* _update_model                                                           *)
(***************************************************************************)
\* h_p_norm[i] == 0.: the row sum over all columns of the buffer is zero.
\* An entry that went through the clip is at least P_MIN.
PNormIsZero(p) == \A j \in 1..Len(prob[p].cols) : prob[p].cols[j].st # "prob"

\* the view merged for orientation r from the current block
BlockTerm(p, r) ==
    [r |-> r, s |-> b_start[p], e |-> b_start[p] + block_sizes[p][blk[p]],
     it |-> iter[p], src |-> prob[p].cols[1].src]

\* lines 172-173 zero both accumulators; lines 174-190 add every owned
\* orientation that is not skipped
Accumulated(p) ==
    LET owned == OwnedRots(num_rot, Size_of(p), Rank_of(p))
        used == IF PNormIsZero(p) THEN {} ELSE {owned[i] : i \in DOMAIN owned}
    IN  [m |-> [c \in Cells |->
                  LET ts == {BlockTerm(p, r) : r \in {x \in used : Touches(x, c)}}
                  IN  IF ts = {} THEN Zero ELSE [k |-> "sum", terms |-> ts]],
         w |-> [c \in Cells |->
                  IF c <= Size - 2
                  THEN Cardinality({rt \in used \X Cells :
                                       Target(rt[1], rt[2]) = c})
                  ELSE 0]]

UpdateModel(p) ==
    /\ pc[p] = "mstep"
    /\ dmodel' = [dmodel EXCEPT ![p] = Accumulated(p).m]
    /\ dmweights' = [dmweights EXCEPT ![p] = Accumulated(p).w]
    /\ b_start' = [b_start EXCEPT ![p] = b_start[p] + block_sizes[p][blk[p]]]
    /\ blk' = [blk EXCEPT ![p] = blk[p] + 1]
    /\ pc' = [pc EXCEPT ![p] =
                IF blk[p] < Len(block_sizes[p]) THEN "estep" ELSE "finish"]
    /\ UNCHANGED <<datavars, normvars, schedvars, streamvars, photons, tagged, reduce_q, bcast_q, saved, issued, num_rot, dset_mem, mem_size, iter, model, mweights,
                   block_sizes, prob, rmax, call, start_model, rendered>>

(***************************************************************************)
(* _normalize_model.  Reduce(..., root=0, op=MPI.SUM): a rank other than   *)
(* the root returns once its buffer is on the way; the root returns once   *)
(* it has received and added the buffer of every other rank.               *)
(***************************************************************************)
\* lines 195-198 / 208: fetch the accumulators, enter Reduce of the model
FetchAccumulators(p) ==
    /\ pc[p] = "finish"
    /\ model' = [model EXCEPT ![p] = dmodel[p]]
    /\ mweights' = [mweights EXCEPT ![p] = dmweights[p]]
    /\ Enter(p, "w_red_model", "Reduce_SUM_DOUBLE", Size)
    /\ UNCHANGED <<datavars, normvars, schedvars, streamvars, num_rot, dset_mem,
                   mem_size, photons, tagged, iter, dmodel, dmweights,
                   block_sizes, blk, b_start, prob, rmax, reduce_q, bcast_q,
                   saved, start_model, rendered>>

\* line 208 on the other ranks: the model is sent, Reduce of the weights
\* (line 209) is entered
SendModel(p) ==
    /\ Rank_of(p) # 0
    /\ pc[p] = "w_red_model"
    /\ reduce_q' = [reduce_q EXCEPT ![p] =
                      Append(@, [len |-> call[p].len, data |-> model[p]])]
    /\ Enter(p, "w_red_weights", "Reduce_SUM_DOUBLE", Size)
    /\ UNCHANGED <<datavars, normvars, schedvars, streamvars, num_rot, dset_mem,
                   mem_size, photons, tagged, iter, model, mweights, dmodel,
                   dmweights, block_sizes, blk, b_start, prob, rmax, bcast_q,
                   saved, start_model, rendered>>

\* line 209 on the other ranks: the weights are sent, Bcast (line 210) is
\* entered
SendWeights(p) ==
    /\ Rank_of(p) # 0
    /\ pc[p] = "w_red_weights"
    /\ reduce_q' = [reduce_q EXCEPT ![p] =
                      Append(@, [len |-> call[p].len, data |-> mweights[p]])]
    /\ Enter(p, "w_bcast", "Bcast", Size)
    /\ UNCHANGED <<datavars, normvars, schedvars, streamvars, num_rot, dset_mem,
                   mem_size, photons, tagged, iter, model, mweights, dmodel,
                   dmweights, block_sizes, blk, b_start, prob, rmax, bcast_q,
                   saved, start_model, rendered>>

\* the buffers of the other ranks that match the root's Reduce have arrived
Arrived(n) ==
    \A q \in RanksOf(n) \ {Root(n)} :
        /\ reduce_q[q] # <<>>
        /\ Head(reduce_q[q]).len = call[Root(n)].len

Received(n) ==
    [p \in Procs |->
        IF Size_of(p) = n /\ Rank_of(p) # 0 THEN Tail(reduce_q[p])
        ELSE reduce_q[p]]

\* MPI.SUM over the root's buffer (MPI.IN_PLACE) and the received ones
RECURSIVE SumVals(_, _)
SumVals(ps, c) ==
    IF ps = {} THEN Zero
    ELSE LET p == CHOOSE x \in ps : TRUE
             v == IF Rank_of(p) = 0 THEN model[p][c]
                  ELSE Head(reduce_q[p]).data[c]
         IN  AddVal(v, SumVals(ps \ {p}, c))

RECURSIVE SumWeights(_, _)
SumWeights(ps, c) ==
    IF ps = {} THEN 0
    ELSE LET p == CHOOSE x \in ps : TRUE
             w == IF Rank_of(p) = 0 THEN mweights[p][c]
                  ELSE Head(reduce_q[p]).data[c]
         IN  w + SumWeights(ps \ {p}, c)

\* line 198: the root receives the sum in place and enters the Reduce of
\* the weights (line 199)
ReduceModel(n) ==
    /\ pc[Root(n)] = "w_red_model"
    /\ Arrived(n)
    /\ model' = [model EXCEPT ![Root(n)] =
                   [c \in Cells |-> SumVals(RanksOf(n), c)]]
    /\ reduce_q' = Received(n)
    /\ Enter(Root(n), "w_red_weights", "Reduce_SUM_DOUBLE", Size)
    /\ UNCHANGED <<datavars, normvars, schedvars, streamvars, num_rot, dset_mem,
                   mem_size, photons, tagged, iter, mweights, dmodel,
                   dmweights, block_sizes, blk, b_start, prob, rmax, bcast_q,
                   saved, start_model, rendered>>

\* line 199: the root receives the summed weights and goes on to the
\* division
ReduceWeights(n) ==
    /\ pc[Root(n)] = "w_red_weights"
    /\ Arrived(n)
    /\ mweights' = [mweights EXCEPT ![Root(n)] =
                      [c \in Cells |-> SumWeights(RanksOf(n), c)]]
    /\ reduce_q' = Received(n)
    /\ pc' = [pc EXCEPT ![Root(n)] = "root_div"]
    /\ call' = [call EXCEPT ![Root(n)] = NoCall]
    /\ UNCHANGED <<datavars, normvars, schedvars, streamvars, num_rot, dset_mem,
                   mem_size, photons, tagged, iter, model, dmodel,
                   dmweights, block_sizes, blk, b_start, prob, rmax, bcast_q,
                   saved, issued, start_model, rendered>>

\* line 200: self.model[self.mweights > 0] /= self.mweights[self.mweights > 0]
Normalized(m, w) ==
    [c \in Cells |-> IF w[c] > 0 THEN DivVal(m[c]) ELSE m[c]]

\* lines 202-206: np.save of the model, and of rmax when iternum is given
Saves(p, m) ==
    <<[file |-> "model", it |-> iter[p], data |-> m]>>
    \o (IF tagged
        THEN <<[file |-> "rmax", it |-> iter[p], data |-> rmax[p]]>>
        ELSE <<>>)

\* lines 200-206 on the root, then Bcast (line 210) is entered
RootDivide(p) ==
    /\ pc[p] = "root_div"
    /\ model' = [model EXCEPT ![p] = Normalized(model[p], mweights[p])]
    /\ saved' = [saved EXCEPT ![p] =
                   @ \o Saves(p, Normalized(model[p], mweights[p]))]
    /\ Enter(p, "w_bcast", "Bcast", Size)
    /\ UNCHANGED <<datavars, normvars, schedvars, streamvars, num_rot, dset_mem,
                   mem_size, photons, tagged, iter, mweights, dmodel,
                   dmweights, block_sizes, blk, b_start, prob, rmax,
                   reduce_q, bcast_q, start_model, rendered>>

Next ==
    \/ \E n \in Comms : BcastInit(n)
    \/ \E p \in Procs : BcastRecv(p)
    \/ \E p \in Procs : StartIteration(p)
    \/ \E p \in Procs : CalculateProb(p)
    \/ \E p \in Procs : NormLocalMax(p)
    \/ \E n \in Comms : AllreduceMax(n)
    \/ \E p \in Procs : Invalidate(p)
    \/ \E n \in Comms : AllreduceRmax(n)
    \/ \E p \in Procs : ExpSum(p)
    \/ \E n \in Comms : AllreduceSum(n)
    \/ \E p \in Procs : DivideClip(p)
    \/ \E p \in Procs : UpdateModel(p)
    \/ \E p \in Procs : FetchAccumulators(p)
    \/ \E p \in Procs : SendModel(p)
    \/ \E p \in Procs : SendWeights(p)
    \/ \E n \in Comms : ReduceModel(n)
    \/ \E n \in Comms : ReduceWeights(n)
    \/ \E p \in Procs : RootDivide(p)
    \/ \E n \in Comms : BcastModel(n)


(***************************************************************************)
(* The arithmetic of _normalize_prob on one block.                         *)
(*                                                                         *)
(* Log-likelihoods are integers, in units of ln(10), so that exp() is a    *)
(* power of ten and P_MIN = 1e-6 is exact.  A number is the exact rational *)
(* n / d.  After the subtraction of the maximum an exponent lies in        *)
(* -ExpDigits..0 and exp() of it is 10^(ExpDigits + x) / 10^ExpDigits.     *)
(***************************************************************************)
\* P_MIN = 1 / PMinInv
PMinInv == 1000000

\* log-likelihoods calc_prob_all may have written
LogVals == {-9, -3, -2}
\* orientation counts and process counts of the block
NormRots == {2, 3}
NormProcs == {1, 2}
\* frames of the block (columns of the buffer)
NormCols == 1

MaxNormRot == CHOOSE x \in NormRots : \A y \in NormRots : x >= y

ExpDigits ==
    (CHOOSE x \in LogVals : \A y \in LogVals : x >= y)
  - (CHOOSE x \in LogVals : \A y \in LogVals : x <= y)

RECURSIVE Pow10(_)
Pow10(k) == IF k = 0 THEN 1 ELSE 10 * Pow10(k - 1)

Rat(n, d) == [n |-> n, d |-> d]

\* e.n / e.d < P_MIN, i.e. e.n * PMinInv < e.d, without the product
BelowPMin(e) == e.n < CeilDiv(e.d, PMinInv)

NRanks == 0..(n_np - 1)
NCols == 1..NormCols
NRows(r) == 1..NumRotP(n_nrot, n_np, r)

\* prob.max(0)
ColMax(m, j) ==
    CHOOSE x \in {m[i][j].n : i \in DOMAIN m} :
        \A i \in DOMAIN m : m[i][j].n <= x

\* prob.argmax(axis=0): the first row that holds the maximum, 0-based
ColArgMax(m, j) ==
    (CHOOSE i \in DOMAIN m :
        /\ m[i][j].n = ColMax(m, j)
        /\ \A k \in DOMAIN m : m[k][j].n = ColMax(m, j) => i <= k) - 1

\* line 149: rmax_p = argmax * num_proc + rank
LocalArgMax(m, j, nproc, rank) == ColArgMax(m, j) * nproc + rank

\* MPI.MAX / MPI.SUM over the ranks, element by element
RECURSIVE ReduceMax(_, _, _)
ReduceMax(buf, ranks, j) ==
    LET r == CHOOSE x \in ranks : TRUE
    IN  IF ranks = {r} THEN buf[r][j]
        ELSE Max2(buf[r][j], ReduceMax(buf, ranks \ {r}, j))

\* a sum that takes one rank's partial sum for the global one
ReduceSumOneRank(buf, ranks, j) == buf[CHOOSE x \in ranks : TRUE][j]

RECURSIVE ReduceSum(_, _, _)
ReduceSum(buf, ranks, j) ==
    IF ranks = {} THEN 0
    ELSE LET r == CHOOSE x \in ranks : TRUE
         IN  buf[r][j] + ReduceSum(buf, ranks \ {r}, j)

\* the arg-max reduction without the invalidation of the losing ranks
NotInvalidated(rmaxp, maxp, maxg) == rmaxp

\* line 154: rmax_p[max_exp_p != max_exp] = -1
Invalidated(rmaxp, maxp, maxg) ==
    [j \in DOMAIN rmaxp |-> IF maxp[j] # maxg[j] THEN -1 ELSE rmaxp[j]]

\* exp() of the log-likelihood itself, which underflows to 0.0
ExpUnderflow(e, mx) == Rat(0, Pow10(ExpDigits))

\* line 158: exp(prob - max_exp)
ExpSub(e, mx) == Rat(Pow10(ExpDigits + (e.n - mx)), Pow10(ExpDigits))

\* line 159: prob.sum(0), in units of 1 / 10^ExpDigits
RECURSIVE ColSum(_, _, _)
ColSum(m, j, i) == IF i = 0 THEN 0 ELSE m[i][j].n + ColSum(m, j, i - 1)

\* line 162: prob / psum; e and psum are both in units of 1 / 10^ExpDigits
Divided(e, ps) == Rat(e.n, ps)

\* a clip that is left out
NotClipped(e) == e

\* src/cupadman/emc.py line 163: prob.clip(a_min=P_MIN)
Clipped(e) == IF BelowPMin(e) THEN Rat(1, PMinInv) ELSE e

\* src/emc.py line 134: prob[prob < P_MIN] = 0
Thresholded(e) == IF BelowPMin(e) THEN Rat(0, 1) ELSE e

NoVec == <<>>

InitNorm ==
    /\ n_impl \in {"cupadman", "plain"}
    /\ n_np \in NormProcs
    /\ n_nrot \in NormRots
    /\ n_pc = [r \in NRanks |-> "start"]
    /\ n_prob \in [NRanks -> UNION {[1..k -> [NCols -> {Rat(v, 1) : v \in LogVals}]] :
                                        k \in 1..MaxNormRot}]
    /\ \A r \in NRanks : DOMAIN n_prob[r] = NRows(r)
    /\ n_log = n_prob
    /\ n_max_exp_p = [r \in NRanks |-> NoVec]
    /\ n_rmax_p = [r \in NRanks |-> NoVec]
    /\ n_max_exp = [r \in NRanks |-> NoVec]
    /\ n_rmax = [r \in NRanks |-> NoVec]
    /\ n_psum_p = [r \in NRanks |-> NoVec]
    /\ n_psum = [r \in NRanks |-> NoVec]
    /\ n_merged = [r \in NRanks |-> {}]

\* lines 148-153
N_LocalMax(r) ==
    /\ n_pc[r] = "start"
    /\ n_max_exp_p' = [n_max_exp_p EXCEPT ![r] =
                         [j \in NCols |-> ColMax(n_prob[r], j)]]
    /\ n_rmax_p' = [n_rmax_p EXCEPT ![r] =
                      [j \in NCols |-> LocalArgMax(n_prob[r], j, n_np, r)]]
    /\ n_pc' = [n_pc EXCEPT ![r] = "w_max"]
    /\ UNCHANGED <<datavars, mainvars, schedvars, streamvars, n_merged, n_impl, n_np, n_nrot, n_log, n_prob, n_max_exp, n_rmax,
                   n_psum_p, n_psum>>

\* line 153: Allreduce(max_exp_p, max_exp, MPI.MAX)
N_AllreduceMax ==
    /\ \A r \in NRanks : n_pc[r] = "w_max"
    /\ n_max_exp' = [r \in NRanks |->
                       [j \in NCols |-> ReduceMax(n_max_exp_p, NRanks, j)]]
    /\ n_pc' = [r \in NRanks |-> "got_max"]
    /\ UNCHANGED <<datavars, mainvars, schedvars, streamvars, n_merged, n_impl, n_np, n_nrot, n_log, n_prob, n_max_exp_p,
                   n_rmax_p, n_rmax, n_psum_p, n_psum>>

\* line 154
N_Invalidate(r) ==
    /\ n_pc[r] = "got_max"
    /\ n_rmax_p' = [n_rmax_p EXCEPT ![r] =
                      Invalidated(n_rmax_p[r], n_max_exp_p[r], n_max_exp[r])]
    /\ n_pc' = [n_pc EXCEPT ![r] = "w_rmax"]
    /\ UNCHANGED <<datavars, mainvars, schedvars, streamvars, n_merged, n_impl, n_np, n_nrot, n_log, n_prob, n_max_exp_p,
                   n_max_exp, n_rmax, n_psum_p, n_psum>>

\* line 155: Allreduce(rmax_p, self.rmax, MPI.MAX)
N_AllreduceRmax ==
    /\ \A r \in NRanks : n_pc[r] = "w_rmax"
    /\ n_rmax' = [r \in NRanks |->
                    [j \in NCols |-> ReduceMax(n_rmax_p, NRanks, j)]]
    /\ n_pc' = [r \in NRanks |-> "got_rmax"]
    /\ UNCHANGED <<datavars, mainvars, schedvars, streamvars, n_merged, n_impl, n_np, n_nrot, n_log, n_prob, n_max_exp_p,
                   n_rmax_p, n_max_exp, n_psum_p, n_psum>>

\* lines 158-160
N_ExpSum(r) ==
    /\ n_pc[r] = "got_rmax"
    /\ LET ex == [i \in DOMAIN n_prob[r] |->
                    [j \in NCols |-> ExpSub(n_prob[r][i][j], n_max_exp[r][j])]]
       IN  /\ n_prob' = [n_prob EXCEPT ![r] = ex]
           /\ n_psum_p' = [n_psum_p EXCEPT ![r] =
                             [j \in NCols |-> ColSum(ex, j, Len(ex))]]
    /\ n_pc' = [n_pc EXCEPT ![r] = "w_sum"]
    /\ UNCHANGED <<datavars, mainvars, schedvars, streamvars, n_merged, n_impl, n_np, n_nrot, n_log, n_max_exp_p, n_rmax_p,
                   n_max_exp, n_rmax, n_psum>>

\* line 161: Allreduce(psum_p, psum, MPI.SUM)
N_AllreduceSum ==
    /\ \A r \in NRanks : n_pc[r] = "w_sum"
    /\ n_psum' = [r \in NRanks |->
                    [j \in NCols |-> ReduceSum(n_psum_p, NRanks, j)]]
    /\ n_pc' = [r \in NRanks |-> "got_sum"]
    /\ UNCHANGED <<datavars, mainvars, schedvars, streamvars, n_merged, n_impl, n_np, n_nrot, n_log, n_prob, n_max_exp_p,
                   n_rmax_p, n_max_exp, n_rmax, n_psum_p>>

\* line 162 (src/emc.py line 133)
N_Divide(r) ==
    /\ n_pc[r] = "got_sum"
    /\ n_prob' = [n_prob EXCEPT ![r] =
                    [i \in DOMAIN n_prob[r] |->
                       [j \in NCols |-> Divided(n_prob[r][i][j], n_psum[r][j])]]]
    /\ n_pc' = [n_pc EXCEPT ![r] = "divided"]
    /\ UNCHANGED <<datavars, mainvars, schedvars, streamvars, n_merged, n_impl, n_np, n_nrot, n_log, n_max_exp_p, n_rmax_p,
                   n_max_exp, n_rmax, n_psum_p, n_psum>>

\* the thresholding of src/emc.py in both implementations
FlooredToZero(e) == Thresholded(e)

\* the last line of _normalize_prob: the clip of src/cupadman/emc.py line
\* 163, or the thresholding of src/emc.py line 134
Floored(e) == IF n_impl = "cupadman" THEN Clipped(e) ELSE Thresholded(e)

N_Floor(r) ==
    /\ n_pc[r] = "divided"
    /\ n_prob' = [n_prob EXCEPT ![r] =
                    [i \in DOMAIN n_prob[r] |->
                       [j \in NCols |-> Floored(n_prob[r][i][j])]]]
    /\ n_pc' = [n_pc EXCEPT ![r] = "done"]
    /\ UNCHANGED <<datavars, mainvars, schedvars, streamvars, n_merged, n_impl, n_np, n_nrot, n_log, n_max_exp_p, n_rmax_p,
                   n_max_exp, n_rmax, n_psum_p, n_psum>>

\* an orientation that is merged whatever its responsibility
NeverSkipped(m, i) == FALSE

\* _update_model, lines 166 and 175-176 (src/emc.py lines 137 and
\* 143-144): p_norm = self.prob.sum(1); if h_p_norm[i] == 0.: continue.
\* A sum of entries that are 0 or at least P_MIN is 0 only if all are 0.
Skipped(m, i) == \A j \in NCols : m[i][j].n = 0

\* the rows for which the loop goes on to zero the view, merge and
\* back-project
N_Update(r) ==
    /\ n_pc[r] = "done"
    /\ n_merged' = [n_merged EXCEPT ![r] =
                      {i \in DOMAIN n_prob[r] : ~Skipped(n_prob[r], i)}]
    /\ n_pc' = [n_pc EXCEPT ![r] = "updated"]
    /\ UNCHANGED <<datavars, mainvars, schedvars, streamvars, n_impl, n_np, n_nrot,
                   n_log, n_prob, n_max_exp_p, n_rmax_p, n_max_exp, n_rmax,
                   n_psum_p, n_psum>>

NextNorm ==
    \/ \E r \in NRanks : N_LocalMax(r)
    \/ N_AllreduceMax
    \/ \E r \in NRanks : N_Invalidate(r)
    \/ N_AllreduceRmax
    \/ \E r \in NRanks : N_ExpSum(r)
    \/ N_AllreduceSum
    \/ \E r \in NRanks : N_Divide(r)
    \/ \E r \in NRanks : N_Floor(r)
    \/ \E r \in NRanks : N_Update(r)

(***************************************************************************)
(* The schedule of run_iteration, lines 98-108, on its own                 *)
(***************************************************************************)
\* inputs of the schedule
SchedProcs == 1..3
SchedRots == 0..4
SchedData == 1..4
SchedAvails == {8, 12, 16, 30, 60, 100}

\* line 103 divides by num_blocks: a rank that owns no orientation has
\* mem_frac = 0 and num_blocks = 0
ScheduleOf(in) ==
    LET nrp == NumRotP(in.num_rot, in.num_proc, in.rank)
        nb == NumBlocks(nrp, in.num_data, in.avail)
    IN  IF nb = 0
        THEN [error |-> "ZeroDivisionError", num_rot_p |-> nrp,
              num_blocks |-> nb, sizes |-> <<>>, cols |-> 0]
        ELSE [error |-> "none", num_rot_p |-> nrp, num_blocks |-> nb,
              sizes |-> BlockSizes(in.num_data, nb),
              cols |-> SeqMax(BlockSizes(in.num_data, nb))]

NoSchedule == [error |-> "not run", num_rot_p |-> 0, num_blocks |-> 0,
               sizes |-> <<>>, cols |-> 0]

InitSched ==
    /\ s_in \in [num_rot : SchedRots, num_proc : SchedProcs, rank : 0..2,
                 num_data : SchedData, avail : SchedAvails]
    /\ s_in.rank < s_in.num_proc
    /\ s_out = NoSchedule

ComputeSchedule ==
    /\ s_out = NoSchedule
    /\ s_out' = ScheduleOf(s_in)
    /\ UNCHANGED <<datavars, mainvars, normvars, streamvars, s_in>>

NextSched == ComputeSchedule

(***************************************************************************)
(* The streams of one rank in one block: _calculate_prob lines 131-145 and *)
(* _update_model lines 172-192.  The host queues kernels on the stream it  *)
(* has made current (stream_list[snum].use()); a stream runs its kernels   *)
(* in the order they were queued, and the streams run side by side.        *)
(* Orientations are named by their position i in the rank's enumeration.   *)
(* A view holds [o, st]: the orientation whose kernel wrote it last and    *)
(* what that kernel left in it.                                            *)
(***************************************************************************)
\* largest num_streams and largest number of owned orientations
MaxStreams == 3
MaxOwned == 3

KStreams == 0..(k_ns - 1)
KRows == 0..(k_nrot - 1)

\* a scratch view shared by the orientations of all streams
ViewShared(i, ns) == 0

\* snum = i % self.num_streams: the stream of orientation i, and the row
\* views[snum] its kernels are given
ViewOf(i, ns) == i % ns

StreamOf(i, ns) == i % ns

NoView == [o |-> -1, st |-> "empty"]

InitStreams ==
    /\ k_ns \in 1..MaxStreams
    /\ k_nrot \in 2..MaxOwned
    /\ k_phase = "estep"
    /\ k_i = 0
    /\ k_queue = [s \in KStreams |-> <<>>]
    /\ k_views = [s \in KStreams |-> NoView]
    /\ k_prob = [i \in KRows |-> NoView]
    /\ k_acc = {}
    /\ k_bad = FALSE
    /\ k_s = 0

Queued(i, ops) ==
    [k_queue EXCEPT ![StreamOf(i, k_ns)] =
        @ \o [x \in 1..Len(ops) |-> [op |-> ops[x], i |-> i]]]

\* lines 131-143: slice_gen and calc_prob_all of orientation i are queued
K_LaunchE ==
    /\ k_phase = "estep"
    /\ k_i < k_nrot
    /\ k_queue' = Queued(k_i, <<"slice_gen", "calc_prob_all">>)
    /\ k_i' = k_i + 1
    /\ UNCHANGED <<datavars, mainvars, normvars, schedvars, k_ns, k_nrot, k_phase,
                   k_views, k_prob, k_acc, k_bad, k_s>>

QueuesEmpty == \A s \in KStreams : k_queue[s] = <<>>

\* a synchronize() that returns at once
NotWaited(s) == TRUE

\* Stream.synchronize() returns when every kernel queued on the stream has
\* run
Synchronized(s) == k_queue[s] = <<>>

\* one element of the comprehension: stream_list[k_s].synchronize(); after
\* the last one the function returns
SyncStep(from, to) ==
    /\ k_phase = from
    /\ k_i = k_nrot
    /\ Synchronized(k_s)
    /\ IF k_s + 1 = k_ns
       THEN k_phase' = to /\ k_s' = 0
       ELSE k_phase' = from /\ k_s' = k_s + 1
    /\ UNCHANGED <<datavars, mainvars, normvars, schedvars, k_ns, k_nrot, k_i, k_queue,
                   k_views, k_prob, k_acc, k_bad>>

\* line 144: [s.synchronize() for s in self.stream_list]
K_SyncE == SyncStep("estep", "norm")

\* _normalize_prob and lines 166-173 of _update_model, on the null stream:
\* the rows become probabilities, the accumulators are zeroed
K_Normalize ==
    /\ k_phase = "norm"
    /\ k_prob' = [i \in KRows |-> [k_prob[i] EXCEPT !.st = "prob"]]
    /\ k_acc' = {}
    /\ k_i' = 0
    /\ k_phase' = "mstep"
    /\ UNCHANGED <<datavars, mainvars, normvars, schedvars, k_ns, k_nrot, k_queue,
                   k_views, k_bad, k_s>>

\* lines 177-190: views[snum,:] = 0, merge_all, the division by p_norm and
\* slice_merge of orientation i are queued
K_LaunchM ==
    /\ k_phase = "mstep"
    /\ k_i < k_nrot
    /\ k_queue' = Queued(k_i, <<"zero", "merge_all", "divide", "slice_merge">>)
    /\ k_i' = k_i + 1
    /\ UNCHANGED <<datavars, mainvars, normvars, schedvars, k_ns, k_nrot, k_phase,
                   k_views, k_prob, k_acc, k_bad, k_s>>

\* line 191: [s.synchronize() for s in self.stream_list]
K_SyncM == SyncStep("mstep", "done")

\* what a kernel of orientation i must find in its view
Expects(op) ==
    CASE op = "calc_prob_all" -> "rendered"
      [] op = "merge_all" -> "zeroed"
      [] op = "divide" -> "merged"
      [] op = "slice_merge" -> "divided"
      [] OTHER -> "any"

\* what a kernel leaves in its view
Leaves(op, st) ==
    CASE op = "slice_gen" -> "rendered"
      [] op = "zero" -> "zeroed"
      [] op = "merge_all" -> IF st = "zeroed" THEN "merged" ELSE "spoilt"
      [] op = "divide" -> IF st = "merged" THEN "divided" ELSE "spoilt"
      [] OTHER -> st

\* the oldest kernel of stream s runs
K_Run(s) ==
    /\ k_queue[s] # <<>>
    /\ LET k == Head(k_queue[s])
           v == ViewOf(k.i, k_ns)
           w == k_views[v]
           writes == k.op \in {"slice_gen", "zero"}
           ok == writes \/ (w.o = k.i /\ w.st = Expects(k.op))
       IN  /\ k_views' = [k_views EXCEPT ![v] =
                 IF writes THEN [o |-> k.i, st |-> Leaves(k.op, w.st)]
                 ELSE [o |-> w.o, st |-> Leaves(k.op, w.st)]]
           /\ k_prob' = IF k.op = "calc_prob_all"
                         THEN [k_prob EXCEPT ![k.i] = [o |-> w.o, st |-> "log"]]
                         ELSE k_prob
           /\ k_acc' = IF k.op = "slice_merge"
                        THEN k_acc \cup {[r |-> k.i, view |-> w]}
                        ELSE k_acc
           /\ k_bad' = (k_bad \/ ~ok)
    /\ k_queue' = [k_queue EXCEPT ![s] = Tail(@)]
    /\ UNCHANGED <<datavars, mainvars, normvars, schedvars, k_ns, k_nrot, k_phase, k_i,
                   k_s>>

NextStreams ==
    \/ K_LaunchE
    \/ K_SyncE
    \/ K_Normalize
    \/ K_LaunchM
    \/ K_SyncM
    \/ \E s \in KStreams : K_Run(s)

(***************************************************************************)
(* The dataset: Dataset.__init__ (src/emc.py lines 25-49) builds the       *)
(* per-frame counts, the offsets and the pooled arrays; calc_prob_all and  *)
(* merge_all (src/kernels.py) are given the slices [s:e] of counts and     *)
(* offsets and the whole pooled arrays (src/cupadman/emc.py lines 138-143  *)
(* and 180-185).                                                           *)
(***************************************************************************)
MaxFrames == 3
\* photons of a kind a frame may hold
OnesLens == {0, 1, 2}
MultiLens == {0, 1}

RECURSIVE SumTo(_, _)
SumTo(seq, i) == IF i = 0 THEN 0 ELSE seq[i] + SumTo(seq, i - 1)

\* ndarray.cumsum()
Cumsum(seq) == [i \in 1..Len(seq) |-> SumTo(seq, i)]

\* the cumulative sums left where they are
NotRolled(seq) == seq

\* cp.roll(a, 1): element i moves to i + 1, the last one to the front
Roll1(seq) ==
    [i \in 1..Len(seq) |-> seq[((i - 2 + Len(seq)) % Len(seq)) + 1]]

\* lines 33-34 and 41-42: accum = roll(cumsum, 1); accum[0] = 0
Accum(lens) == [Roll1(Cumsum(lens)) EXCEPT ![1] = 0]

\* np.hstack(fptr['place_ones'][:]): the frames' arrays one after another
RECURSIVE Hstack(_, _)
Hstack(lens, n) ==
    IF n = 0 THEN <<>>
    ELSE Hstack(lens, n - 1) \o [x \in 1..lens[n] |-> n - 1]

\* a[s:e]
Slice(seq, s, e) == [i \in 1..(e - s) |-> seq[s + i]]

\* the loops 'for (t = acc[d] ; t < acc[d] + cnt[d] ; ++t)' of the threads
\* d < ndata
KernelReads(ndata, cnt, acc) ==
    [d \in 0..(ndata - 1) |-> acc[d + 1]..(acc[d + 1] + cnt[d + 1] - 1)]

NoRead == [kernel |-> "none", s |-> 0, e |-> 0, ones |-> <<>>, multi |-> <<>>]

InitData ==
    /\ d_file \in UNION {[ones : [1..n -> OnesLens], multi : [1..n -> MultiLens]] :
                             n \in 1..MaxFrames}
    /\ d_nblocks \in 1..(MaxFrames + 1)
    /\ d_nblocks <= Len(d_file.ones) + 1
    /\ d_pc = "init"
    /\ d_ones = <<>>
    /\ d_multi = <<>>
    /\ d_ones_accum = <<>>
    /\ d_multi_accum = <<>>
    /\ d_place_ones = <<>>
    /\ d_place_multi = <<>>
    /\ d_sizes = <<>>
    /\ d_blk = 0
    /\ d_read = NoRead

\* Dataset.__init__, then run_iteration up to the loop over the blocks
D_Load ==
    /\ d_pc = "init"
    /\ d_ones' = d_file.ones
    /\ d_ones_accum' = Accum(d_file.ones)
    /\ d_place_ones' = Hstack(d_file.ones, Len(d_file.ones))
    /\ d_multi' = d_file.multi
    /\ d_multi_accum' = Accum(d_file.multi)
    /\ d_place_multi' = Hstack(d_file.multi, Len(d_file.multi))
    /\ d_sizes' = BlockSizes(Len(d_file.ones), d_nblocks)
    /\ d_blk' = 1
    /\ d_pc' = "estep"
    /\ UNCHANGED <<mainvars, normvars, schedvars, streamvars, d_file,
                   d_nblocks, d_read>>

\* what a kernel launched for block d_blk reads
BlockReads(kernel) ==
    LET s == StartOf(d_sizes, d_blk)
        e == s + d_sizes[d_blk]
    IN  [kernel |-> kernel, s |-> s, e |-> e,
         ones |-> KernelReads(e - s, Slice(d_ones, s, e),
                              Slice(d_ones_accum, s, e)),
         multi |-> KernelReads(e - s, Slice(d_multi, s, e),
                               Slice(d_multi_accum, s, e))]

\* _calculate_prob, lines 138-143
D_CalcProbAll ==
    /\ d_pc = "estep"
    /\ d_read' = BlockReads("calc_prob_all")
    /\ d_pc' = "mstep"
    /\ UNCHANGED <<mainvars, normvars, schedvars, streamvars, d_file,
                   d_nblocks, d_ones, d_multi, d_ones_accum, d_multi_accum,
                   d_place_ones, d_place_multi, d_sizes, d_blk>>

\* _update_model, lines 180-185, and the step to the next block
D_MergeAll ==
    /\ d_pc = "mstep"
    /\ d_read' = BlockReads("merge_all")
    /\ d_blk' = d_blk + 1
    /\ d_pc' = IF d_blk < Len(d_sizes) THEN "estep" ELSE "done"
    /\ UNCHANGED <<mainvars, normvars, schedvars, streamvars, d_file,
                   d_nblocks, d_ones, d_multi, d_ones_accum, d_multi_accum,
                   d_place_ones, d_place_multi, d_sizes>>

NextData ==
    \/ D_Load
    \/ D_CalcProbAll
    \/ D_MergeAll

(***************************************************************************)
(* The specifications.  Each one runs its own part of the state and leaves *)
(* the rest parked.                                                        *)
(***************************************************************************)
ParkedMain ==
    /\ num_rot = 0
    /\ dset_mem = 0
    /\ mem_size = <<>>
    /\ photons = "none"
    /\ tagged = FALSE
    /\ pc = <<>>
    /\ iter = <<>>
    /\ model = <<>>
    /\ mweights = <<>>
    /\ dmodel = <<>>
    /\ dmweights = <<>>
    /\ block_sizes = <<>>
    /\ blk = <<>>
    /\ b_start = <<>>
    /\ prob = <<>>
    /\ rmax = <<>>
    /\ call = <<>>
    /\ reduce_q = <<>>
    /\ bcast_q = <<>>
    /\ saved = <<>>
    /\ issued = <<>>
    /\ start_model = <<>>
    /\ rendered = <<>>

ParkedNorm ==
    /\ n_impl = "none"
    /\ n_np = 0
    /\ n_nrot = 0
    /\ n_pc = <<>>
    /\ n_log = <<>>
    /\ n_prob = <<>>
    /\ n_max_exp_p = <<>>
    /\ n_rmax_p = <<>>
    /\ n_max_exp = <<>>
    /\ n_rmax = <<>>
    /\ n_psum_p = <<>>
    /\ n_psum = <<>>
    /\ n_merged = <<>>

ParkedSched ==
    /\ s_in = [num_rot |-> 0, num_proc |-> 0, rank |-> 0, num_data |-> 0,
               avail |-> 0]
    /\ s_out = NoSchedule

ParkedStreams ==
    /\ k_ns = 0
    /\ k_nrot = 0
    /\ k_phase = "none"
    /\ k_i = 0
    /\ k_queue = <<>>
    /\ k_views = <<>>
    /\ k_prob = <<>>
    /\ k_acc = <<>>
    /\ k_bad = FALSE
    /\ k_s = 0

ParkedData ==
    /\ d_file = [ones |-> <<>>, multi |-> <<>>]
    /\ d_nblocks = 0
    /\ d_pc = "none"
    /\ d_ones = <<>>
    /\ d_multi = <<>>
    /\ d_ones_accum = <<>>
    /\ d_multi_accum = <<>>
    /\ d_place_ones = <<>>
    /\ d_place_multi = <<>>
    /\ d_sizes = <<>>
    /\ d_blk = 0
    /\ d_read = NoRead

SpecInit == Init /\ ParkedNorm /\ ParkedSched /\ ParkedStreams /\ ParkedData
Spec == SpecInit /\ [][Next]_vars

SpecNormInit == InitNorm /\ ParkedMain /\ ParkedSched /\ ParkedStreams /\ ParkedData
SpecNorm == SpecNormInit /\ [][NextNorm]_vars

SpecStreamsInit == InitStreams /\ ParkedMain /\ ParkedNorm /\ ParkedSched /\ ParkedData
SpecStreams == SpecStreamsInit /\ [][NextStreams]_vars

SpecSchedInit == InitSched /\ ParkedMain /\ ParkedNorm /\ ParkedStreams /\ ParkedData
SpecSched == SpecSchedInit /\ [][NextSched]_vars

SpecDataInit == InitData /\ ParkedMain /\ ParkedNorm /\ ParkedSched /\ ParkedStreams
SpecData == SpecDataInit /\ [][NextData]_vars

(***************************************************************************)
(* Properties of the launches (Spec)                                       *)
(***************************************************************************)
InIteration(p) == iter[p] >= 1 /\ pc[p] # "idle"

IsPrefix(s, t) == Len(s) <= Len(t) /\ SubSeq(t, 1, Len(s)) = s

\* C1: every rank of a communicator issues the same sequence of collective
\* calls with the same buffer lengths and the same number of frame blocks:
\* of the calls two ranks have made so far, one sequence is the beginning
\* of the other, and two ranks in the same iteration have schedules of the
\* same number of blocks.
C1_SameCollectives ==
    \A n \in Comms : \A p, q \in RanksOf(n) :
        /\ IsPrefix(issued[p], issued[q]) \/ IsPrefix(issued[q], issued[p])
        /\ (InIteration(p) /\ InIteration(q) /\ iter[p] = iter[q])
              => Len(block_sizes[p]) = Len(block_sizes[q])

\* C2: in every block of an iteration slice_gen renders from the model the
\* iteration started with.
C2_RenderFromStartModel ==
    \A p \in Procs :
        (iter[p] >= 1 /\ ~(pc[p] = "estep" /\ blk[p] = 1))
            => rendered[p] = start_model[p]

\* C3: the accumulators handed to the model reduction hold, for every owned
\* orientation and every cell it maps to, the contribution of every frame
\* of the dataset, i.e. of every block of the iteration.
C3_AllBlocksAccumulated ==
    \A p \in Procs :
        pc[p] = "finish" =>
            LET owned == OwnedRots(num_rot, Size_of(p), Rank_of(p))
            IN  \A i \in DOMAIN owned : \A c \in Cells : \A d \in Frames :
                    Touches(owned[i], c) =>
                        \E x \in dmodel[p][c].terms :
                            x.r = owned[i] /\ x.s <= d /\ d < x.e

IterationDone(p) == iter[p] >= 1 /\ pc[p] \in {"w_bcast", "idle"}

\* C7: after the iteration a cell of the root's model whose summed weight
\* is zero holds the intensity it held before the iteration.
C7_ZeroWeightKeepsPrior ==
    \A n \in Comms :
        IterationDone(Root(n)) =>
            \A c \in Cells :
                mweights[Root(n)][c] = 0
                    => model[Root(n)][c] = start_model[Root(n)][c]

\* C8: between iterations (after construction and after every completed
\* run_iteration) every process holds the model its root holds.
C8_ModelSameAsRoot ==
    \A p \in Procs :
        pc[p] = "idle" => model[p] = model[Root(Size_of(p))]

\* C8 witness: a non-root rank has completed an iteration and holds the
\* divided model of the root.
C8_Witness ==
    \E p \in Procs :
        /\ Rank_of(p) # 0
        /\ pc[p] = "idle"
        /\ iter[p] >= 1
        /\ model[p][0].k = "avg"
        /\ model[p] = model[Root(Size_of(p))]

\* C9: one iteration on the same input (a dataset with photons) with the
\* same device memory gives the same model with 1 process and with 2
\* processes (2 dividing num_rot).
C9_SameModelAsOneProcess ==
    ( /\ \A p \in Procs : pc[p] = "idle" /\ iter[p] = 1
      /\ photons = "some"
      /\ \A p, q \in Procs : mem_size[p] = mem_size[q]
      /\ num_rot % 2 = 0 )
        => \A p \in Procs : model[p] = model[<<1, 0>>]

\* the steps of a block, in program order
StageNo(s) ==
    CASE s = "estep" -> 1 [] s = "norm" -> 2 [] s = "w_max" -> 3
      [] s = "got_max" -> 4 [] s = "w_rmax" -> 5 [] s = "got_rmax" -> 6
      [] s = "w_sum" -> 7 [] s = "got_sum" -> 8 [] s = "mstep" -> 9
      [] OTHER -> 0

InBlock(p) == StageNo(pc[p]) > 0

AfterBlocks(p) ==
    pc[p] \in {"finish", "w_red_model", "w_red_weights", "root_div",
               "w_bcast", "idle"}

\* process q has reached step s of block b of iteration i, or is beyond it
Reached(q, i, b, s) ==
    \/ iter[q] > i
    \/ iter[q] = i /\ AfterBlocks(q)
    \/ iter[q] = i /\ InBlock(q)
          /\ (blk[q] > b \/ (blk[q] = b /\ StageNo(pc[q]) >= s))

\* the root of communicator n has received the partial model and weights
\* of every rank in iteration i
RootReceived(n, i) ==
    \/ iter[Root(n)] > i
    \/ iter[Root(n)] = i /\ pc[Root(n)] \in {"root_div", "w_bcast", "idle"}

\* C11: a process that has returned from a normalization collective of a
\* block finds that every process of its communicator has entered that
\* collective; a process in the M-step of a block finds that every process
\* has finished the E-step of that block; and a process that has returned
\* from an iteration (and so any process that starts the E-step of the
\* next one) finds that the root has received the partial model and
\* weights of every process.
C11_PhasesInStep ==
    \A n \in Comms : \A p, q \in RanksOf(n) :
        /\ (iter[p] >= 1 /\ InBlock(p)) =>
              /\ StageNo(pc[p]) >= 4 => Reached(q, iter[p], blk[p], 3)
              /\ StageNo(pc[p]) >= 6 => Reached(q, iter[p], blk[p], 5)
              /\ StageNo(pc[p]) >= 8 => Reached(q, iter[p], blk[p], 7)
              /\ StageNo(pc[p]) = 9 => Reached(q, iter[p], blk[p], 2)
              /\ blk[p] > 1 => Reached(q, iter[p], blk[p] - 1, 7)
        /\ (iter[p] >= 1 /\ AfterBlocks(p)) =>
              Reached(q, iter[p], Len(block_sizes[p]), 7)
        /\ \A i \in 1..MaxIter :
              (iter[p] > i \/ (iter[p] = i /\ pc[p] = "idle"))
                  => RootReceived(n, i)

\* C11 witness: in a run of two processes one process is in the M-step of
\* the second block while the other has returned from the last collective
\* of that block and has not started its M-step.
C11_Witness ==
    \E p, q \in RanksOf(2) :
        /\ p # q
        /\ iter[p] = 1 /\ iter[q] = 1
        /\ blk[p] = 2 /\ blk[q] = 2
        /\ pc[p] = "mstep"
        /\ pc[q] = "got_sum"

\* C13: every entry of the probability buffer that _normalize_prob or
\* _update_model reads (they read every column of the buffer) was written
\* by calc_prob_all for the current block of the current iteration.
C13_NoStaleEntries ==
    \A p \in Procs :
        (iter[p] >= 1 /\ StageNo(pc[p]) >= 2) =>
            \A j \in 1..Len(prob[p].cols) :
                /\ prob[p].cols[j].it = iter[p]
                /\ prob[p].cols[j].blk = blk[p]

\* C17: when no frame holds a photon, after the iteration the reduced
\* weights are zero in every cell and the root's model is the model the
\* iteration started with.
C17_NoPhotonsNoChange ==
    \A n \in Comms :
        (photons = "none" /\ IterationDone(Root(n))) =>
            /\ \A c \in Cells : mweights[Root(n)][c] = 0
            /\ model[Root(n)] = start_model[Root(n)]

\* C18: at the end of run_iteration the rmax the root holds (and saves) has
\* one entry per frame of the dataset, entry d being the winner computed
\* from the log-likelihoods of frame d in this iteration.
C18_RmaxPerFrame ==
    \A n \in Comms :
        IterationDone(Root(n)) =>
            LET r == rmax[Root(n)]
            IN  /\ Len(r) = NumData
                /\ \A d \in Frames :
                      /\ r[d + 1].frame = d
                      /\ r[d + 1].it = iter[Root(n)]
                      /\ r[d + 1].st = "log"

\* the files of kind f a process has written in iteration i
Written(p, f, i) ==
    {x \in DOMAIN saved[p] : saved[p][x].file = f /\ saved[p][x].it = i}

\* C19: only rank 0 writes; once it is past the division of iteration i it
\* has written the model of that iteration exactly once and the rmax array
\* of that iteration (rmax is computed in every iteration) exactly once,
\* and it has written neither before both reductions and the division.
C19_RootSavesOnce ==
    /\ \A p \in Procs : Rank_of(p) # 0 => saved[p] = <<>>
    /\ \A n \in Comms : \A i \in 1..MaxIter :
          LET r == Root(n)
              past == iter[r] > i \/ (iter[r] = i /\ pc[r] \in {"w_bcast", "idle"})
          IN  /\ past => Cardinality(Written(r, "model", i)) = 1
              /\ past => Cardinality(Written(r, "rmax", i)) = 1
              /\ ~past => (Written(r, "model", i) = {} /\ Written(r, "rmax", i) = {})

\* a block of b frames fits the budget:
\* num_rot_p * b * 8 <= MEM_THRESH * (mem_size - dset.mem)
BlockFits(nrotp, b, avail) ==
    nrotp * b * BytesPerEntry * MemThreshDen <= MemThreshNum * avail

\* C6: every block of the schedule, and the allocated buffer of
\* block_sizes.max() columns, satisfies
\* num_rot_p * block_size * 8 <= MEM_THRESH * available memory.
C6_BlocksWithinBudget ==
    s_out.error = "none" =>
        /\ \A b \in DOMAIN s_out.sizes :
              BlockFits(s_out.num_rot_p, s_out.sizes[b], s_in.avail)
        /\ BlockFits(s_out.num_rot_p, s_out.cols, s_in.avail)

\* C14: the schedule is a list of contiguous frame ranges that starts at
\* frame 0, covers every frame of the dataset exactly once, has sizes that
\* differ by at most one, and has its num_data mod num_blocks larger blocks
\* first.
C14_ScheduleShape ==
    s_out.error = "none" =>
        LET sizes == s_out.sizes
            dr == Dranges(sizes)
            nb == Len(sizes)
            small == s_in.num_data \div nb
        IN  /\ nb = s_out.num_blocks
            /\ dr[1].s = 0
            /\ \A b \in 2..nb : dr[b].s = dr[b - 1].e
            /\ dr[nb].e = s_in.num_data
            /\ \A d \in 0..(s_in.num_data - 1) :
                  Cardinality({b \in 1..nb : dr[b].s <= d /\ d < dr[b].e}) = 1
            /\ \A a, b \in 1..nb :
                  sizes[a] - sizes[b] <= 1 /\ (a < b => sizes[a] >= sizes[b])
            /\ \A b \in 1..nb :
                  sizes[b] = (IF b <= s_in.num_data % nb THEN small + 1 ELSE small)

\* C14 witness: a schedule of several blocks with a remainder.
C14_Witness ==
    /\ s_out.error = "none"
    /\ s_out.num_blocks >= 2
    /\ s_in.num_data % s_out.num_blocks # 0
    /\ s_out.sizes[1] = s_out.sizes[s_out.num_blocks] + 1

\* range(start, stop, step) for a positive step, as the sequence of its
\* elements
RECURSIVE PyRange(_, _, _)
PyRange(start, stop, step) ==
    IF start >= stop THEN <<>>
    ELSE <<start>> \o PyRange(start + step, stop, step)

\* the orientations the loops of _calculate_prob and _update_model of a
\* rank walk through; element i + 1 is the one enumerate() pairs with i
LoopRots(rank) == PyRange(rank, s_in.num_rot, s_in.num_proc)

\* C22: every orientation in [0, num_rot) is in the loop of exactly one
\* rank, the rank r mod num_proc; row i of a rank belongs to orientation
\* rank + i * num_proc; and num_rot_p is the length of the rank's loop, so
\* the rows written are exactly 0..num_rot_p - 1.
C22_StripedAssignment ==
    s_out # NoSchedule =>
        LET ranks == 0..(s_in.num_proc - 1)
            mine == LoopRots(s_in.rank)
        IN  /\ \A r \in 0..(s_in.num_rot - 1) :
                  {q \in ranks : \E i \in DOMAIN LoopRots(q) : LoopRots(q)[i] = r}
                      = {r % s_in.num_proc}
            /\ \A q \in ranks : \A i \in DOMAIN LoopRots(q) :
                  /\ LoopRots(q)[i] = q + (i - 1) * s_in.num_proc
                  /\ LoopRots(q)[i] < s_in.num_rot
            /\ s_out.num_rot_p = Len(mine)
            /\ {i - 1 : i \in DOMAIN mine} = 0..(s_out.num_rot_p - 1)
            /\ mine = OwnedRots(s_in.num_rot, s_in.num_proc, s_in.rank)

\* C22 witness: the orientations do not divide evenly and the rank is one
\* of those that own one more than the others.
C22_Witness ==
    /\ s_out # NoSchedule
    /\ s_in.num_proc >= 2
    /\ s_in.rank < s_in.num_rot % s_in.num_proc
    /\ s_out.num_rot_p >= 2
    /\ s_out.num_rot_p = Len(LoopRots(s_in.rank))

\* C15: when the probability row of one frame over the owned orientations
\* exceeds MEM_THRESH of the available memory, run_iteration ends in a
\* reported error and has no schedule to go on with.
C15_FatalWhenRowTooLarge ==
    ( /\ s_out # NoSchedule
      /\ s_out.num_rot_p >= 1
      /\ ~RowFits(s_out.num_rot_p, s_in.avail) )
        => (s_out.error # "none" /\ s_out.sizes = <<>>)

(***************************************************************************)
(* Properties of the normalisation (SpecNorm)                              *)
(***************************************************************************)
AllNorm(where) == \A r \in NRanks : n_pc[r] = where

\* the entries of the probability matrices of all ranks
NormIdx == {ri \in NRanks \X (1..MaxNormRot) : ri[2] \in DOMAIN n_prob[ri[1]]}

Entry(ri, j) == n_prob[ri[1]][ri[2]][j]

\* an entry the last line of _normalize_prob replaced: P_MIN or 0
IsFloor(e) == e = Rat(1, PMinInv)
IsZero(e) == e.n = 0

RECURSIVE SumOfNum(_, _)
SumOfNum(ix, j) ==
    IF ix = {} THEN 0
    ELSE LET x == CHOOSE y \in ix : TRUE
         IN  Entry(x, j).n + SumOfNum(ix \ {x}, j)

\* The sum of column j over all ranks compared with 1: -1 (less), 0
\* (equal), 1 (greater).  The quotients n / psum add up to a / s, the c
\* entries at the floor to c / PMinInv, and
\*     a / s + c / PMinInv ? 1   is   c * s ? (s - a) * PMinInv,
\* evaluated without a product beyond 2^31.  -2: the quotients do not
\* share the denominator psum.
SumVsOne(j) ==
    LET s == n_psum[0][j]
        quot == {x \in NormIdx : ~IsFloor(Entry(x, j)) /\ ~IsZero(Entry(x, j))}
        c == Cardinality({x \in NormIdx : IsFloor(Entry(x, j))})
        a == SumOfNum(quot, j)
        d == s - a
    IN  IF \E x \in quot : Entry(x, j).d # s THEN -2
        ELSE IF d <= 0 THEN (IF d = 0 /\ c = 0 THEN 0 ELSE 1)
        ELSE IF d > (c * s) \div PMinInv THEN -1
        ELSE IF d * PMinInv = c * s THEN 0 ELSE 1

C16_ZeroSumSkipped ==
    \A r \in NRanks :
        n_pc[r] = "updated" =>
            \A i \in DOMAIN n_prob[r] :
                (\A j \in NCols : IsZero(n_prob[r][i][j])) => i \notin n_merged[r]

\* C16 witness: a rank of src/emc.py has gone through _update_model with
\* an orientation of zero sum, which was skipped, and one that was merged.
C16_Witness ==
    \E r \in NRanks :
        /\ n_pc[r] = "updated"
        /\ \E i \in DOMAIN n_prob[r] :
              /\ \A j \in NCols : IsZero(n_prob[r][i][j])
              /\ i \notin n_merged[r]
        /\ n_merged[r] # {}

\* the largest log-likelihood of frame j over all orientations of all ranks
IsGlobalMax(v, j) ==
    /\ \E x \in NormIdx : n_log[x[1]][x[2]][j].n = v
    /\ \A x \in NormIdx : n_log[x[1]][x[2]][j].n <= v

\* C10: after the two max-reductions every rank holds the same rmax, no
\* entry of it is -1, and entry j is the global index (row * num_proc +
\* rank) of an orientation whose log-likelihood for frame j is the largest
\* over all orientations of all ranks.
C10_GlobalArgMax ==
    \A r \in NRanks :
        n_rmax[r] # NoVec =>
            \A j \in NCols :
                LET g == n_rmax[r][j]
                IN  /\ \A q \in NRanks : n_rmax[q][j] = g
                    /\ g # -1
                    /\ g >= 0
                    /\ (g \div n_np) + 1 \in DOMAIN n_log[g % n_np]
                    /\ IsGlobalMax(n_log[g % n_np][(g \div n_np) + 1][j].n, j)

\* C10 witness: two ranks, the maximum of a frame is on one of them only,
\* the other has invalidated its candidate, and rmax has been reduced.
C10_Witness ==
    /\ n_np = 2
    /\ AllNorm("got_rmax")
    /\ \E r \in NRanks : \E j \in NCols :
          /\ n_rmax_p[r][j] = -1
          /\ n_rmax[r][j] % n_np # r

(***************************************************************************)
(* Properties of the streams (SpecStreams)                                 *)
(***************************************************************************)
\* what one stream leaves behind
OneStreamProb(st) == [i \in KRows |-> [o |-> i, st |-> st]]

OneStreamAcc == {[r |-> i, view |-> [o |-> i, st |-> "divided"]] : i \in KRows}

\* C12: for every number of streams and every interleaving of the streams,
\* no kernel finds in its view what another orientation's kernel left
\* there, every row of the probability matrix after the E-step barrier
\* comes from the view of its own orientation, and the accumulators after
\* the M-step barrier hold what a single stream leaves in them.
C12_StreamsAsOneStream ==
    /\ ~k_bad
    /\ k_phase = "norm" => k_prob = OneStreamProb("log")
    /\ k_phase = "done" => (k_prob = OneStreamProb("prob") /\ k_acc = OneStreamAcc)

\* C12 witness: with two streams and three orientations (two of them on
\* the same stream) the M-step barrier has been passed.
C12_Witness ==
    /\ k_ns = 2
    /\ k_nrot = 3
    /\ k_phase = "done"
    /\ k_acc = OneStreamAcc

\* the ranks that are past the exponentiation and have not divided yet
AfterExp(r) == n_pc[r] \in {"w_sum", "got_sum"}

\* C20: after the exponentiation every entry lies in [0,1], being 1 where
\* the log-likelihood was the global maximum of its frame; once every rank
\* has exponentiated, every frame has an entry equal to 1 on some rank; the
\* global sum is at least 1 and no quotient has a zero denominator.
C20_ExpInUnitRange ==
    /\ \A r \in NRanks : AfterExp(r) =>
          \A i \in DOMAIN n_prob[r] : \A j \in NCols :
              LET e == n_prob[r][i][j]
              IN  /\ e.d > 0
                  /\ 0 <= e.n /\ e.n <= e.d
                  /\ IsGlobalMax(n_log[r][i][j].n, j) => e.n = e.d
    /\ (\A r \in NRanks : AfterExp(r)) =>
          \A j \in NCols : \E x \in NormIdx :
              n_prob[x[1]][x[2]][j].n = n_prob[x[1]][x[2]][j].d
    /\ \A r \in NRanks : n_pc[r] = "got_sum" =>
          \A j \in NCols : n_psum[r][j] >= Pow10(ExpDigits)
    /\ \A r \in NRanks : n_pc[r] \in {"divided", "done", "updated"} =>
          \A i \in DOMAIN n_prob[r] : \A j \in NCols : n_prob[r][i][j].d > 0

\* C20 witness: two ranks hold the global sum; one of them has no entry
\* equal to 1 (the winner is on the other rank) and an entry below 1.
C20_Witness ==
    /\ n_np = 2
    /\ \A r \in NRanks : n_pc[r] = "got_sum"
    /\ \E r \in NRanks :
          /\ \A i \in DOMAIN n_prob[r] : \A j \in NCols :
                n_prob[r][i][j].n < n_prob[r][i][j].d
          /\ \A j \in NCols : n_psum[r][j] > Pow10(ExpDigits)

\* a kernel of one of the given kinds is queued on some stream
InFlight(ops) ==
    \E s \in KStreams : \E x \in DOMAIN k_queue[s] : k_queue[s][x].op \in ops

\* C21: when _calculate_prob has returned (normalization is about to
\* start) no slice_gen or calc_prob_all is in flight on any stream and
\* every owned orientation's row holds the likelihoods of the block; when
\* _update_model has returned (the next block or the model reduction is
\* about to start) no merge or back-projection kernel is in flight.
C21_BarriersHold ==
    /\ k_phase \in {"norm", "mstep"} =>
          ~InFlight({"slice_gen", "calc_prob_all"})
    /\ k_phase = "norm" =>
          /\ QueuesEmpty
          /\ \A i \in KRows : k_prob[i].st = "log"
    /\ k_phase = "done" =>
          /\ QueuesEmpty
          /\ ~InFlight({"zero", "merge_all", "divide", "slice_merge"})

\* C21 witness: three orientations on three streams; both barriers have
\* been passed, every row went through normalization and every orientation
\* was back-projected.
C21_Witness ==
    /\ k_ns = 3
    /\ k_nrot = 3
    /\ k_phase = "done"
    /\ QueuesEmpty
    /\ \A i \in KRows : k_prob[i].st = "prob"
    /\ Cardinality(k_acc) = k_nrot

\* C23: in src/cupadman/emc.py every entry that left _normalize_prob is at
\* least P_MIN, so the sum of every row is positive, the skip of
\* _update_model is not taken for any owned orientation, and the divisor
\* p_norm is not zero.
C23_ClipKeepsAllMerged ==
    \A r \in NRanks :
        n_impl = "cupadman" =>
            /\ n_pc[r] \in {"done", "updated"} =>
                  \A i \in DOMAIN n_prob[r] :
                      /\ \A j \in NCols :
                            /\ n_prob[r][i][j].d > 0
                            /\ n_prob[r][i][j].n > 0
                            /\ ~BelowPMin(n_prob[r][i][j])
                      /\ ~Skipped(n_prob[r], i)
            /\ n_pc[r] = "updated" => n_merged[r] = DOMAIN n_prob[r]

\* C23 witness: a rank of src/cupadman/emc.py went through _update_model
\* with an entry the clip had raised to P_MIN, and merged every row.
C23_Witness ==
    /\ n_impl = "cupadman"
    /\ \E r \in NRanks :
          /\ n_pc[r] = "updated"
          /\ \E i \in DOMAIN n_prob[r] : \A j \in NCols :
                n_prob[r][i][j] = Rat(1, PMinInv)
          /\ n_merged[r] = DOMAIN n_prob[r]
          /\ Cardinality(n_merged[r]) >= 2

(***************************************************************************)
(* Properties of the dataset (SpecData)                                    *)
(***************************************************************************)
\* the segment of frame d (1-based) in a pooled array
Segment(acc, cnt, d) == acc[d]..(acc[d] + cnt[d] - 1)

PoolIdx(pool) == 0..(Len(pool) - 1)

\* offsets that are the exclusive prefix sums of the counts, and segments
\* that partition the pooled array
OffsetsOk(acc, cnt, pool) ==
    /\ Len(acc) = Len(cnt)
    /\ acc[1] = 0
    /\ \A d \in 1..(Len(cnt) - 1) : acc[d + 1] = acc[d] + cnt[d]
    /\ \A a, b \in DOMAIN acc : a < b => acc[a] <= acc[b]
    /\ \A a, b \in DOMAIN acc :
          a # b => Segment(acc, cnt, a) \cap Segment(acc, cnt, b) = {}
    /\ UNION {Segment(acc, cnt, d) : d \in DOMAIN acc} = PoolIdx(pool)
    /\ \A d \in DOMAIN acc : \A t \in Segment(acc, cnt, d) : pool[t + 1] = d - 1

\* thread d of a kernel given the slices [s:e] read the photons of frame
\* s + d, all of them and nothing else
ReadsOk(reads, s, pool) ==
    \A d \in DOMAIN reads :
        /\ reads[d] \subseteq PoolIdx(pool)
        /\ reads[d] = {t \in PoolIdx(pool) : pool[t + 1] = s + d}

\* C24: the offsets are exclusive prefix sums of the per-frame counts, the
\* segments are disjoint, inside the pooled array and cover it, and a
\* kernel given the sub-range [s:e] reads for every frame of the block that
\* frame's photons only and never past the pooled array.
C24_OffsetsPartitionPool ==
    d_pc \in {"estep", "mstep", "done"} =>
        /\ OffsetsOk(d_ones_accum, d_ones, d_place_ones)
        /\ OffsetsOk(d_multi_accum, d_multi, d_place_multi)
        /\ d_read.kernel # "none" =>
              /\ DOMAIN d_read.ones = 0..(d_read.e - d_read.s - 1)
              /\ ReadsOk(d_read.ones, d_read.s, d_place_ones)
              /\ ReadsOk(d_read.multi, d_read.s, d_place_multi)

\* C24 witness: merge_all ran for a block that does not start at frame 0,
\* behind frames that hold photons, and read photons of both kinds.
C24_Witness ==
    /\ d_read.kernel = "merge_all"
    /\ d_read.s > 0
    /\ d_read.e > d_read.s
    /\ d_ones_accum[d_read.s + 1] > 0
    /\ d_multi_accum[d_read.s + 1] > 0
    /\ d_read.ones[0] # {}
    /\ d_read.multi[0] # {}

=============================================================================
